---- MODULE Spec2Model ----
(***************************************************************************)
(* The end-to-end API scenarios of testsprite_tests (TC001 .. TC010), each *)
(* a linear sequence of HTTP requests with assertions, some with a cleanup *)
(* block, run against an external server whose answers are unconstrained.  *)
(***************************************************************************)
EXTENDS Integers, Sequences, FiniteSets, TLC

VARIABLES
    scn,            \* the script being run
    state,          \* Pending, Running, Succeeded, Failed, CleaningUp, Done
    stepIndex,      \* index of the step being run, or of the step that failed
    auth_token,     \* token / auth_token of the script
    refresh_token,  \* TC004: refresh_token
    project_id,     \* TC010: project_id, TC008: created_project_id
    site_id,        \* TC010: site_id
    link_id,        \* TC010: link_id
    rate_limited,   \* TC001: rate_limited
    attempts,       \* TC001: iterations of the probe loop completed
    probeResps,     \* TC001: statuses answered to the probe requests
    todo,           \* cleanup statements still to be executed
    cleanupRuns,    \* how many times the cleanup block was entered
    cleanupResps,   \* statuses answered to the cleanup DELETEs, in order
    sent,           \* every request sent so far, in order
    passed,         \* result of every forward step run so far, in order
    lastResp,       \* response to the most recent forward step
    failure,        \* the error that is propagating out of the script
    firstFailure,   \* index of the first forward step that failed, 0 if none
    srvUsers,       \* shared server: its users and their passwords
    limiter,        \* shared server: the login throttle
    conc            \* shared server: script, position and result of each run

\* the variables of one run against an unconstrained server
runVars == <<scn, state, stepIndex, auth_token, refresh_token, project_id,
             site_id, link_id, rate_limited, attempts, probeResps, todo,
             cleanupRuns, cleanupResps, sent, passed, lastResp, failure,
             firstFailure>>

\* the variables of several runs against one shared server
concVars == <<srvUsers, limiter, conc>>

vars == <<runVars, concVars>>

-----------------------------------------------------------------------------
(* Values *)

\* Python None for a string-valued variable or an absent JSON string field
None == "None"

\* Python None for a number-valued variable or an absent JSON number field
NoneInt == -1

\* no response: requests raised (connection error or timeout)
NetErr == 0

\* largest identifier the server hands out
MaxId == 1

\* range(max_attempts) of the probe loop
max_attempts == 10

TokVals == {None, "", "tA", "tB"}

IdVals == {NoneInt} \cup (0 .. MaxId)

BalVals == {NoneInt, 0, 100}

ProfVals == {None, "old", "new"}

Statuses == {NetErr, 200, 201, 400, 401, 422, 429, 500}

\* truthiness of a string (None and "" are falsy)
TruthyTok(t) == t \notin {None, ""}

\* truthiness of a number (None and 0 are falsy)
TruthyInt(i) == i \notin {NoneInt, 0}

\* Python `a or b` on strings
PyOrTok(a, b) == IF TruthyTok(a) THEN a ELSE b

\* Python `a or b` on numbers
PyOrInt(a, b) == IF TruthyInt(a) THEN a ELSE b

-----------------------------------------------------------------------------
(* Scripts *)

Scenarios == {"TC001", "TC002", "TC003", "TC004", "TC005", "TC006", "TC007",
              "TC008", "TC009", "TC010"}

\* mutant: the purchase script sends its deposit a second time
ScriptDepositResent(s) ==
    CASE s = "TC001" -> <<"login", "bad_login", "probe">>
      [] s = "TC002" -> <<"register", "reg_no_username", "reg_no_email",
                          "reg_no_password", "reg_bad_email">>
      [] s = "TC003" -> <<"verify_bad", "verify_bad", "verify_bad">>
      [] s = "TC004" -> <<"register", "login", "refresh", "bad_refresh">>
      [] s = "TC005" -> <<"login", "get_profile">>
      [] s = "TC006" -> <<"register", "login", "get_profile", "patch_profile",
                          "get_profile_after", "patch_invalid", "patch_unauth">>
      [] s = "TC007" -> <<"register", "login", "change_password", "login_new",
                          "change_password_bad">>
      [] s = "TC008" -> <<"login", "create_project", "list_projects">>
      [] s = "TC009" -> <<"wp_register", "wp_register_bad">>
      [] s = "TC010" -> <<"register", "login", "create_project", "create_site",
                          "add_link", "deposit", "deposit", "balance", "purchase">>

\* the forward steps of each script, in the order the script issues them
Script(s) ==
    CASE s = "TC001" -> <<"login", "bad_login", "probe">>
      [] s = "TC002" -> <<"register", "reg_no_username", "reg_no_email",
                          "reg_no_password", "reg_bad_email">>
      [] s = "TC003" -> <<"verify_bad", "verify_bad", "verify_bad">>
      [] s = "TC004" -> <<"register", "login", "refresh", "bad_refresh">>
      [] s = "TC005" -> <<"login", "get_profile">>
      [] s = "TC006" -> <<"register", "login", "get_profile", "patch_profile",
                          "get_profile_after", "patch_invalid", "patch_unauth">>
      [] s = "TC007" -> <<"register", "login", "change_password", "login_new",
                          "change_password_bad">>
      [] s = "TC008" -> <<"login", "create_project", "list_projects">>
      [] s = "TC009" -> <<"wp_register", "wp_register_bad">>
      [] s = "TC010" -> <<"register", "login", "create_project", "create_site",
                          "add_link", "deposit", "balance", "purchase">>

NumSteps(s) == Len(Script(s))

StepName(s, k) == Script(s)[k]

\* HTTP method of a forward step
Method(name) ==
    IF name \in {"verify_bad", "get_profile", "get_profile_after",
                 "list_projects", "balance"}
    THEN "GET"
    ELSE IF name \in {"patch_profile", "patch_invalid", "patch_unauth"}
    THEN "PATCH"
    ELSE "POST"

\* forward steps sent with the Authorization header
Authed(name) ==
    name \in {"get_profile", "get_profile_after", "patch_profile",
              "patch_invalid", "change_password", "change_password_bad",
              "create_project", "create_site", "add_link", "list_projects",
              "deposit", "balance", "purchase"}

\* scripts whose function body has a try ... finally cleanup block
HasCleanup(s) == s \in {"TC006", "TC007", "TC008", "TC010"}

\* mutant: the login of every script is placed before the try
FirstGuardedAfterLogin(s) == 2

\* first forward step that lies inside the try of the cleanup block
FirstGuarded(s) == IF s = "TC008" THEN 2 ELSE 1

\* mutant: the cleanup is the last statement of the try body, not a finally
GuardedNoFinally(s, k) ==
    HasCleanup(s) /\ k >= FirstGuarded(s) /\ state = "Succeeded"

\* step k of script s lies inside the try whose finally is the cleanup block
Guarded(s, k) == HasCleanup(s) /\ k >= FirstGuarded(s)

\* mutant: the project is deleted before its link
CleanupPlanProjectFirst(s) ==
    CASE s = "TC010" -> <<"project", "link", "site">>
      [] s = "TC008" -> <<"project">>
      [] OTHER -> <<>>

\* the DELETE statements of the cleanup block, in program order
CleanupPlan(s) ==
    CASE s = "TC010" -> <<"link", "project", "site">>
      [] s = "TC008" -> <<"project">>
      [] OTHER -> <<>>

-----------------------------------------------------------------------------
(* Responses *)

\* a response with an empty JSON object as body
Blank ==
    [status |-> 200, token |-> None, accessToken |-> None,
     refreshToken |-> None, refresh_token |-> None,
     id |-> NoneInt, projectId |-> NoneInt, project_id |-> NoneInt,
     linkId |-> NoneInt, placementId |-> NoneInt, balance |-> NoneInt,
     already |-> FALSE, isDict |-> TRUE, isList |-> FALSE, listIds |-> {},
     username |-> None, email |-> None, display_name |-> None,
     site_url |-> None, error |-> None, message |-> None]

Plain(S) == {[Blank EXCEPT !.status = st] : st \in S}

\* what a server may answer to a forward step of script s
Responses(s, name) ==
    CASE name \in {"register", "reg_no_username", "reg_no_email",
                   "reg_no_password", "reg_bad_email"} ->
            Plain(Statuses) \cup
            {[Blank EXCEPT !.status = 400, !.already = TRUE,
                           !.message = "already"]}
      [] name = "login" /\ s = "TC004" ->
            Plain(Statuses \ {200}) \cup
            {[Blank EXCEPT !.token = t, !.refreshToken = x, !.refresh_token = y] :
                t \in {None, "tA"}, x \in TokVals, y \in TokVals}
      [] name = "login" /\ s # "TC004" ->
            Plain(Statuses \ {200}) \cup
            {[Blank EXCEPT !.token = t, !.accessToken = a] :
                t \in TokVals, a \in TokVals}
      [] name = "refresh" ->
            Plain(Statuses \ {200}) \cup
            {[Blank EXCEPT !.isDict = d, !.token = t, !.accessToken = a] :
                d \in BOOLEAN, t \in {None, "tA"}, a \in {None, "tB"}}
      [] name = "get_profile" ->
            Plain(Statuses \ {200}) \cup
            {[Blank EXCEPT !.isDict = d, !.username = u, !.email = e] :
                d \in BOOLEAN, u \in {None, "old"}, e \in {None, "old"}}
      [] name \in {"patch_profile", "get_profile_after"} ->
            Plain(Statuses \ {200}) \cup
            {[Blank EXCEPT !.email = e, !.display_name = n] :
                e \in ProfVals, n \in ProfVals}
      [] name = "create_project" /\ s = "TC008" ->
            Plain(Statuses \ {201}) \cup
            {[Blank EXCEPT !.status = 201, !.id = a, !.projectId = b,
                           !.project_id = c] :
                a \in IdVals, b \in IdVals, c \in IdVals}
      [] name = "create_project" /\ s # "TC008" ->
            Plain(Statuses \ {201}) \cup
            {[Blank EXCEPT !.status = 201, !.id = a, !.projectId = b] :
                a \in IdVals, b \in IdVals}
      [] name = "create_site" ->
            Plain(Statuses \ {201}) \cup
            {[Blank EXCEPT !.status = 201, !.id = a] : a \in IdVals}
      [] name = "add_link" ->
            Plain(Statuses \ {201}) \cup
            {[Blank EXCEPT !.status = 201, !.id = a, !.linkId = b] :
                a \in IdVals, b \in IdVals}
      [] name = "list_projects" ->
            Plain(Statuses \ {200}) \cup
            {[Blank EXCEPT !.isList = l, !.isDict = ~l, !.listIds = ids] :
                l \in BOOLEAN, ids \in SUBSET (0 .. MaxId)}
      [] name = "balance" ->
            Plain(Statuses \ {200}) \cup
            {[Blank EXCEPT !.balance = b] : b \in BalVals}
      [] name = "purchase" ->
            Plain(Statuses \ {200, 400}) \cup
            {[Blank EXCEPT !.placementId = p, !.id = a] :
                p \in {NoneInt, 1}, a \in {NoneInt, 1}} \cup
            {[Blank EXCEPT !.status = 400, !.message = m] :
                m \in {None, "insufficient"}}
      [] name = "wp_register" ->
            Plain(Statuses \ {201}) \cup
            {[Blank EXCEPT !.status = 201, !.isDict = d, !.site_url = u, !.id = a] :
                d \in BOOLEAN, u \in {None, "url"}, a \in {NoneInt, 1}}
      [] name = "wp_register_bad" ->
            Plain(Statuses \ {400}) \cup
            {[Blank EXCEPT !.status = 400, !.error = e, !.message = m] :
                e \in {None, "err"}, m \in {None, "msg"}}
      [] OTHER -> Plain(Statuses)

\* what a server may answer to a DELETE of the cleanup block
CleanupStatuses == {NetErr, 200, 500}

\* what a server may answer to a request of the probe loop
ProbeStatuses == {NetErr, 401, 429, 500}

-----------------------------------------------------------------------------
(* Token and identifier extraction *)

\* the access token a script reads from a login response
LoginToken(s, r) ==
    CASE s \in {"TC005", "TC010"} -> PyOrTok(r.token, r.accessToken)
      [] s \in {"TC006", "TC007", "TC008"} -> r.token
      [] OTHER -> None

\* the refresh token TC004 reads from a login response
LoginRefreshToken(r) ==
    IF r.refreshToken # None THEN r.refreshToken ELSE r.refresh_token

\* the assertion a login step makes on the token it read
TokenOk(s, r) ==
    CASE s = "TC001" -> r.token # None \/ r.accessToken # None
      [] s = "TC004" -> r.refreshToken # None \/ r.refresh_token # None
      [] s \in {"TC005", "TC008"} -> LoginToken(s, r) # None
      [] s \in {"TC006", "TC007", "TC010"} -> TruthyTok(LoginToken(s, r))
      [] OTHER -> FALSE

\* the assertions of a login step
LoginOk(s, r) == r.status = 200 /\ TokenOk(s, r)

\* the project identifier a script reads from a creation response
ProjectId(s, r) ==
    IF s = "TC008"
    THEN PyOrInt(PyOrInt(r.id, r.projectId), r.project_id)
    ELSE PyOrInt(r.id, r.projectId)

\* the link identifier TC010 reads from a creation response
LinkId(r) == PyOrInt(r.id, r.linkId)

\* mutant: the identifier is read but never asserted
IdOkUnchecked(s, name, r) == TRUE

\* the assertion a creation step makes on the identifier it read
IdOk(s, name, r) ==
    CASE name = "create_project" -> ProjectId(s, r) # NoneInt
      [] name = "create_site" -> r.id # NoneInt
      [] name = "add_link" -> LinkId(r) # NoneInt
      [] OTHER -> FALSE

\* the assertions of a registration step
RegisterOk(s, r) ==
    CASE s = "TC002" -> r.status = 201 \/ (r.status = 400 /\ r.already)
      [] s = "TC004" -> r.status = 201 \/ r.status = 400
      [] OTHER -> r.status = 201

\* the assertions of forward step `name` of script s on response r
Passes(s, name, r) ==
    CASE name = "register" -> RegisterOk(s, r)
      [] name = "login" -> LoginOk(s, r)
      [] name \in {"reg_no_username", "reg_no_email", "reg_no_password",
                   "reg_bad_email", "verify_bad", "change_password_bad"} ->
            r.status = 400
      [] name \in {"bad_login", "bad_refresh", "patch_unauth"} -> r.status = 401
      [] name \in {"login_new", "change_password", "deposit"} -> r.status = 200
      [] name = "refresh" ->
            r.status = 200 /\ r.isDict
            /\ (r.accessToken # None \/ r.token # None)
      [] name = "get_profile" /\ s = "TC005" ->
            r.status = 200 /\ r.isDict /\ r.username # None /\ r.email # None
      [] name = "get_profile" /\ s # "TC005" ->
            r.status = 200 /\ r.email # None
      [] name \in {"patch_profile", "get_profile_after"} ->
            r.status = 200 /\ r.email = "new" /\ r.display_name = "new"
      [] name = "patch_invalid" -> r.status = 400 \/ r.status = 422
      [] name \in {"create_project", "create_site", "add_link"} ->
            r.status = 201 /\ IdOk(s, name, r)
      [] name = "list_projects" ->
            r.status = 200 /\ r.isList /\ project_id \in r.listIds
      [] name = "balance" ->
            r.status = 200 /\ r.balance # NoneInt /\ r.balance > 0
      [] name = "purchase" ->
            r.status = 200 /\ (r.placementId # NoneInt \/ r.id # NoneInt)
      [] name = "wp_register" ->
            r.status = 201 /\ r.isDict /\ (r.site_url # None \/ r.id # NoneInt)
      [] name = "wp_register_bad" ->
            r.status = 400 /\ (r.error # None \/ r.message # None)
      [] OTHER -> FALSE

-----------------------------------------------------------------------------
(* Requests *)

\* mutant: the purchase request leaves out the site id
ForwardRequestNoSite(s, k) ==
    LET name == StepName(s, k) IN
    [kind |-> IF name = "probe" THEN "probe" ELSE "forward",
     method |-> Method(name), ep |-> name, step |-> k,
     tok |-> IF Authed(name) THEN auth_token ELSE None,
     rt |-> IF name = "refresh" THEN refresh_token
            ELSE IF name = "bad_refresh" THEN "bad" ELSE None,
     pid |-> IF name \in {"add_link", "purchase"} THEN project_id ELSE NoneInt,
     sid |-> NoneInt,
     lid |-> IF name = "purchase" THEN link_id ELSE NoneInt]

\* the request of forward step k of script s, with the values substituted
ForwardRequest(s, k) ==
    LET name == StepName(s, k) IN
    [kind |-> IF name = "probe" THEN "probe" ELSE "forward",
     method |-> Method(name), ep |-> name, step |-> k,
     tok |-> IF Authed(name) THEN auth_token ELSE None,
     rt |-> IF name = "refresh" THEN refresh_token
            ELSE IF name = "bad_refresh" THEN "bad" ELSE None,
     pid |-> IF name \in {"add_link", "purchase"} THEN project_id ELSE NoneInt,
     sid |-> IF name = "purchase" THEN site_id ELSE NoneInt,
     lid |-> IF name = "purchase" THEN link_id ELSE NoneInt]

\* the DELETE request of a cleanup statement
CleanupRequest(target) ==
    [kind |-> "cleanup", method |-> "DELETE", ep |-> target, step |-> 0,
     tok |-> auth_token, rt |-> None,
     pid |-> IF target \in {"link", "project"} THEN project_id ELSE NoneInt,
     sid |-> IF target = "site" THEN site_id ELSE NoneInt,
     lid |-> IF target = "link" THEN link_id ELSE NoneInt]

\* the condition under which a cleanup statement sends its DELETE
CleanupApplies(s, target) ==
    CASE s = "TC010" ->
            /\ TruthyTok(auth_token)
            /\ CASE target = "link" -> TruthyInt(link_id) /\ TruthyInt(project_id)
                 [] target = "project" -> TruthyInt(project_id)
                 [] target = "site" -> TruthyInt(site_id)
                 [] OTHER -> FALSE
      [] s = "TC008" -> target = "project" /\ TruthyInt(project_id)
      [] OTHER -> FALSE

\* a cleanup DELETE answered st makes the cleanup block raise
CleanupRaises(s, st) == s = "TC008" /\ st # 200

\* the probe loop stops with rate_limited set
ProbeHit(st) == st = 429

\* mutant: the loop runs one iteration too many
ProbeExhaustedLate(n) == n >= max_attempts + 1

\* mutant: the probe loop has no bound (while True)
ProbeNeverExhausted(n) == FALSE

\* the probe loop has used up its iterations
ProbeExhausted(n) == n >= max_attempts

\* no error is propagating
NoFailure == [kind |-> "none", step |-> 0, msg |-> None]

\* what the error raised by a failing step carries of the server's answer: the
\* purchase step puts the message of a 400 answer (its body if there is no
\* message field) into its assertion error
ErrorMessage(s, name, r) ==
    IF name = "purchase" /\ r.status = 400
    THEN IF r.message # None THEN r.message ELSE "resp.text"
    ELSE None

\* a server that does not throttle logins
NoLimiter == [N |-> 0, fails |-> 0, strict |-> FALSE]

\* mutant: a failed assertion does not stop the script
StateAfterIgnoresFailure(s, k, ok) ==
    IF k = NumSteps(s) THEN "Succeeded" ELSE "Running"

\* where control goes after the assertions of forward step k of script s
StateAfter(s, k, ok) ==
    IF ~ok THEN "Failed"
    ELSE IF k = NumSteps(s) THEN "Succeeded" ELSE "Running"

-----------------------------------------------------------------------------
(* One run of one script *)

Init ==
    /\ scn \in Scenarios
    /\ state = "Pending"
    /\ stepIndex = 0
    /\ auth_token = None
    /\ refresh_token = None
    /\ project_id = NoneInt
    /\ site_id = NoneInt
    /\ link_id = NoneInt
    /\ rate_limited = FALSE
    /\ attempts = 0
    /\ probeResps = <<>>
    /\ todo = <<>>
    /\ cleanupRuns = 0
    /\ cleanupResps = <<>>
    /\ sent = <<>>
    /\ passed = <<>>
    /\ lastResp = Blank
    /\ failure = NoFailure
    /\ firstFailure = 0
    /\ srvUsers = <<>>
    /\ limiter = NoLimiter
    /\ conc = <<>>

\* the script's function is called
Start ==
    /\ state = "Pending"
    /\ state' = "Running"
    /\ stepIndex' = 1
    /\ UNCHANGED <<scn, auth_token, refresh_token, project_id, site_id, link_id,
                   rate_limited, attempts, probeResps, todo, cleanupRuns,
                   cleanupResps, sent, passed, lastResp, failure, firstFailure>>
    /\ UNCHANGED concVars

\* the current forward step answered r: the request, the assertions, the
\* extraction
RunStep(r) ==
    /\ LET name == StepName(scn, stepIndex)
            ok == Passes(scn, name, r)
        IN
        /\ sent' = Append(sent, ForwardRequest(scn, stepIndex))
        /\ lastResp' = r
        /\ passed' = Append(passed, ok)
        /\ auth_token' = IF name = "login" /\ ok /\ LoginToken(scn, r) # None
                         THEN LoginToken(scn, r) ELSE auth_token
        /\ refresh_token' = IF name = "login" /\ ok /\ scn = "TC004"
                            THEN LoginRefreshToken(r) ELSE refresh_token
        /\ project_id' = IF name = "create_project" /\ r.status = 201
                         THEN ProjectId(scn, r) ELSE project_id
        /\ site_id' = IF name = "create_site" /\ r.status = 201
                      THEN r.id ELSE site_id
        /\ link_id' = IF name = "add_link" /\ r.status = 201
                      THEN LinkId(r) ELSE link_id
        /\ state' = StateAfter(scn, stepIndex, ok)
        /\ stepIndex' = IF StateAfter(scn, stepIndex, ok) = "Running"
                        THEN stepIndex + 1 ELSE stepIndex
        /\ IF ok
           THEN UNCHANGED <<failure, firstFailure>>
           ELSE /\ failure' = [kind |-> "step", step |-> stepIndex,
                             msg |-> ErrorMessage(scn, name, r)]
                /\ firstFailure' = IF firstFailure = 0
                                   THEN stepIndex ELSE firstFailure
    /\ UNCHANGED <<scn, rate_limited, attempts, probeResps, todo, cleanupRuns,
                   cleanupResps>>

\* one forward step, whatever the server answers
Step ==
    /\ state = "Running"
    /\ StepName(scn, stepIndex) # "probe"
    /\ \E r \in Responses(scn, StepName(scn, stepIndex)) : RunStep(r)
    /\ UNCHANGED concVars

\* one iteration of the probe loop of TC001 answered st, with the assertion
\* after the loop
RunProbe(st) ==
    /\  /\ sent' = Append(sent, ForwardRequest(scn, stepIndex))
        /\ probeResps' = Append(probeResps, st)
        /\ lastResp' = [Blank EXCEPT !.status = st]
        /\ IF st = NetErr
           THEN /\ state' = "Failed"
                /\ passed' = Append(passed, FALSE)
                /\ failure' = [kind |-> "step", step |-> stepIndex,
                                    msg |-> None]
                /\ firstFailure' = stepIndex
                /\ UNCHANGED <<rate_limited, attempts>>
           ELSE IF ProbeHit(st)
           THEN /\ rate_limited' = TRUE
                /\ state' = "Succeeded"
                /\ passed' = Append(passed, TRUE)
                /\ UNCHANGED <<attempts, failure, firstFailure>>
           ELSE /\ attempts' = attempts + 1
                /\ UNCHANGED rate_limited
                /\ IF ProbeExhausted(attempts + 1)
                   THEN /\ state' = "Failed"
                        /\ passed' = Append(passed, FALSE)
                        /\ failure' = [kind |-> "step", step |-> stepIndex,
                                    msg |-> None]
                        /\ firstFailure' = stepIndex
                   ELSE UNCHANGED <<state, passed, failure, firstFailure>>
    /\ UNCHANGED <<scn, stepIndex, auth_token, refresh_token, project_id,
                   site_id, link_id, todo, cleanupRuns, cleanupResps>>

\* one iteration of the probe loop, whatever the server answers
ProbeAttempt ==
    /\ state = "Running"
    /\ StepName(scn, stepIndex) = "probe"
    /\ \E st \in ProbeStatuses : RunProbe(st)
    /\ UNCHANGED concVars

\* control enters the finally block, after the try body ended or raised
EnterCleanup ==
    /\ state \in {"Succeeded", "Failed"}
    /\ Guarded(scn, stepIndex)
    /\ state' = "CleaningUp"
    /\ cleanupRuns' = cleanupRuns + 1
    /\ todo' = CleanupPlan(scn)
    /\ UNCHANGED <<scn, stepIndex, auth_token, refresh_token, project_id,
                   site_id, link_id, rate_limited, attempts, probeResps,
                   cleanupResps, sent, passed, lastResp, failure, firstFailure>>
    /\ UNCHANGED concVars

\* one statement of the cleanup block
CleanupStep ==
    /\ state = "CleaningUp"
    /\ todo # <<>>
    /\ IF ~CleanupApplies(scn, Head(todo))
       THEN /\ todo' = Tail(todo)
            /\ UNCHANGED <<sent, cleanupResps, failure>>
       ELSE \E st \in CleanupStatuses :
            /\ sent' = Append(sent, CleanupRequest(Head(todo)))
            /\ cleanupResps' = Append(cleanupResps, st)
            /\ IF CleanupRaises(scn, st)
               THEN /\ failure' = [kind |-> "cleanup", step |-> 0,
                                         msg |-> None]
                    /\ todo' = <<>>
               ELSE /\ todo' = Tail(todo)
                    /\ UNCHANGED failure
    /\ UNCHANGED <<scn, state, stepIndex, auth_token, refresh_token, project_id,
                   site_id, link_id, rate_limited, attempts, probeResps,
                   cleanupRuns, passed, lastResp, firstFailure>>
    /\ UNCHANGED concVars

\* the finally block is left: the function returns or re-raises
Finish ==
    /\ state = "CleaningUp"
    /\ todo = <<>>
    /\ state' = "Done"
    /\ UNCHANGED <<scn, stepIndex, auth_token, refresh_token, project_id,
                   site_id, link_id, rate_limited, attempts, probeResps, todo,
                   cleanupRuns, cleanupResps, sent, passed, lastResp, failure,
                   firstFailure>>
    /\ UNCHANGED concVars

\* the function returns or raises where no finally block encloses the step
Exit ==
    /\ state \in {"Succeeded", "Failed"}
    /\ ~Guarded(scn, stepIndex)
    /\ state' = "Done"
    /\ UNCHANGED <<scn, stepIndex, auth_token, refresh_token, project_id,
                   site_id, link_id, rate_limited, attempts, probeResps, todo,
                   cleanupRuns, cleanupResps, sent, passed, lastResp, failure,
                   firstFailure>>
    /\ UNCHANGED concVars

Next ==
    \/ Start
    \/ Step
    \/ ProbeAttempt
    \/ EnterCleanup
    \/ CleanupStep
    \/ Finish
    \/ Exit

Spec == Init /\ [][Next]_vars

-----------------------------------------------------------------------------
(* Properties of one run *)

\* the forward requests sent so far (probe requests included), in order
Fwd == SelectSeq(sent, LAMBDA q : q.kind # "cleanup")

\* the cleanup DELETEs sent so far, in order
Dels == SelectSeq(sent, LAMBDA q : q.kind = "cleanup")

\* how many DELETEs were sent for a cleanup target
DelCount(target) == Cardinality({i \in DOMAIN Dels : Dels[i].ep = target})

\* position of a cleanup target in the dependency chain link -> project -> site
DependencyRank(target) ==
    CASE target = "link" -> 1 [] target = "project" -> 2 [] OTHER -> 3

\* the run failed at a forward step
RunFailed == firstFailure # 0

\* C1 (as stated): in every run of a script that has cleanup actions, passing
\* or failing, the cleanup is executed exactly once, never zero times and
\* never twice.
C1_CleanupExactlyOnce ==
    /\ cleanupRuns <= 1
    /\ (HasCleanup(scn) /\ state = "Done") => cleanupRuns = 1

\* C1 (amended): the cleanup block is never executed twice and no DELETE is
\* sent twice; a finished run has executed it exactly once, passing or failing,
\* except a run of the project script TC008 whose login step failed, which
\* ends with the cleanup block executed zero times (scripts without a cleanup
\* block never execute one).
C1_CleanupOnceWhenGuarded ==
    /\ cleanupRuns <= 1
    /\ \A target \in {"link", "project", "site"} : DelCount(target) <= 1
    /\ state \in {"Pending", "Running", "Succeeded", "Failed"} => cleanupRuns = 0
    /\ state = "CleaningUp" => cleanupRuns = 1
    /\ state = "Done" =>
          cleanupRuns = IF \/ scn \in {"TC006", "TC007", "TC010"}
                           \/ (scn = "TC008" /\ passed[1])
                        THEN 1 ELSE 0

\* a failed purchase run that has finished after running its cleanup, with all
\* three DELETEs sent
C1_Witness ==
    /\ scn = "TC010" /\ state = "Done" /\ RunFailed
    /\ cleanupRuns = 1 /\ Len(Dels) = 3

\* C2: cleanup DELETEs go out in reverse-dependency order: the link before its
\* project, the project before the site, in every run, whatever prefix of
\* steps succeeded and whatever the earlier DELETEs were answered.
C2_ReverseDependencyOrder ==
    \A i, j \in DOMAIN Dels :
        i < j =>
            /\ DependencyRank(Dels[i].ep) < DependencyRank(Dels[j].ep)
            /\ (Dels[i].ep = "link" /\ Dels[j].ep = "project")
                  => Dels[i].pid = Dels[j].pid

\* a failed run in which the link DELETE itself failed and the project and
\* site DELETEs were still sent after it
C2_Witness ==
    /\ RunFailed /\ Len(Dels) = 3
    /\ cleanupResps[1] # 200
    /\ Dels[1].ep = "link" /\ Dels[2].ep = "project" /\ Dels[3].ep = "site"

\* the transitions Pending -> Running -> {Succeeded | Failed} -> CleaningUp -> Done
ChainTransitions ==
    {<<"Pending", "Running">>, <<"Running", "Succeeded">>,
     <<"Running", "Failed">>, <<"Succeeded", "CleaningUp">>,
     <<"Failed", "CleaningUp">>, <<"CleaningUp", "Done">>}

\* C3 (as stated): a run of a script with a cleanup block moves only along
\* Pending -> Running(k) -> {Succeeded | Failed(k)} -> CleaningUp -> Done:
\* CleaningUp only from Succeeded or Failed, Done only from CleaningUp, and
\* nothing changes once Done.
C3_StateMachine ==
    [][HasCleanup(scn) =>
         /\ state # "Done"
         /\ state' # state => <<state, state'>> \in ChainTransitions
         /\ state' = state => stepIndex' \in {stepIndex, stepIndex + 1}]_vars

\* C3 (amended): a run moves only along Pending -> Running(k) ->
\* {Succeeded | Failed(k)} -> CleaningUp -> Done, except that a run which ends
\* where no cleanup block encloses the step (the project script TC008 failing
\* at its login step, and every run of a script without a cleanup block) goes
\* from Succeeded or Failed straight to Done; CleaningUp is entered only from
\* Succeeded or Failed, and nothing changes once Done.
C3_StateMachineAmended ==
    [][/\ state # "Done"
       /\ state' # state =>
            IF \/ scn \in {"TC006", "TC007", "TC010"}
               \/ (scn = "TC008" /\ ~(state = "Failed" /\ stepIndex = 1))
            THEN <<state, state'>> \in ChainTransitions
            ELSE <<state, state'>> \in
                    {<<"Pending", "Running">>, <<"Running", "Succeeded">>,
                     <<"Running", "Failed">>, <<"Succeeded", "Done">>,
                     <<"Failed", "Done">>}
       /\ state' = state => stepIndex' \in {stepIndex, stepIndex + 1}]_vars

\* a project run that failed at its last step and went through the cleanup
\* phase to Done
C3_Witness ==
    /\ scn = "TC008" /\ state = "Done" /\ firstFailure = 3
    /\ cleanupRuns = 1 /\ Len(Dels) = 1

\* forward requests go out in declared order, one per step (only the probe step
\* repeats), and a step is issued only after all steps before it passed
InDeclaredOrder ==
    /\ \A i \in DOMAIN Fwd :
          /\ Fwd[i].step = IF i = 1 THEN 1
                           ELSE IF Fwd[i].kind = "probe" /\ Fwd[i - 1].kind = "probe"
                           THEN Fwd[i - 1].step
                           ELSE Fwd[i - 1].step + 1
          /\ Fwd[i].ep = StepName(scn, Fwd[i].step)
          /\ \A k \in 1 .. (Fwd[i].step - 1) : k \in DOMAIN passed /\ passed[k]
    /\ \A k \in DOMAIN passed : ~passed[k] => k = Len(passed) /\ k = firstFailure
    /\ RunFailed => \A i \in DOMAIN Fwd : Fwd[i].step <= firstFailure

\* once a forward step has failed no forward request is sent any more
NoForwardAfterFailure == [][RunFailed => Fwd' = Fwd]_vars

\* C4 (as stated): steps are issued strictly in declared order, step k+1 only
\* if steps 1..k passed; after the first failing step no later forward request
\* is sent, while the cleanup of a script that has one still runs.
C4_OrderedShortCircuit ==
    /\ []InDeclaredOrder
    /\ NoForwardAfterFailure
    /\ []((HasCleanup(scn) /\ RunFailed /\ state = "Done") => cleanupRuns = 1)

\* C4 (amended): steps are issued strictly in declared order, step k+1 only if
\* steps 1..k passed; after the first failing step no later forward request is
\* sent, while the cleanup of a script that has one still runs, unless the
\* failing step is the login step of the project script TC008, which lies
\* before the try: that run ends without cleanup.
C4_OrderedShortCircuitAmended ==
    /\ []InDeclaredOrder
    /\ NoForwardAfterFailure
    /\ []((HasCleanup(scn) /\ RunFailed /\ state = "Done"
           /\ ~(scn = "TC008" /\ firstFailure = 1)) => cleanupRuns = 1)

\* a purchase run that failed at its fifth step, sent exactly five forward
\* requests and finished after its cleanup
C4_Witness ==
    /\ scn = "TC010" /\ state = "Done" /\ firstFailure = 5
    /\ Len(Fwd) = 5 /\ cleanupRuns = 1 /\ Len(Dels) = 2

\* C5: when a forward step failed and a cleanup request then fails too, the
\* failure the finished run reports is still the first failing forward step.
C5_FirstFailureReported ==
    (state = "Done" /\ RunFailed) =>
        (failure.kind = "step" /\ failure.step = firstFailure)

\* the probe loop has ended without an exception
ProbeReturned ==
    /\ scn = "TC001" /\ Len(passed) = 3
    /\ probeResps[Len(probeResps)] # NetErr

\* C6: the probe sends the failing-credential request at most max_attempts
\* times; it yields true exactly when some response is 429 and sends nothing
\* after the first 429; it yields false, failing the run, exactly when all
\* max_attempts responses are non-429.
C6_ProbeContract ==
    /\ Len(probeResps) <= max_attempts
    /\ Cardinality({i \in DOMAIN sent : sent[i].kind = "probe"}) = Len(probeResps)
    /\ \A i \in DOMAIN probeResps :
          probeResps[i] = 429 => i = Len(probeResps)
    /\ rate_limited <=> \E i \in DOMAIN probeResps : probeResps[i] = 429
    /\ ProbeReturned =>
          /\ passed[3] <=> rate_limited
          /\ ~rate_limited <=>
                /\ Len(probeResps) = max_attempts
                /\ \A i \in DOMAIN probeResps : probeResps[i] # 429
          /\ ~rate_limited => RunFailed

\* the probe succeeded on its last allowed attempt
C6_Witness ==
    /\ ProbeReturned /\ rate_limited /\ Len(probeResps) = max_attempts

\* the scripts that have a login step whose response they read a token from
LoginScripts == {"TC001", "TC004", "TC005", "TC006", "TC007", "TC008", "TC010"}

\* position of the login step in a script
LoginIndex(s) == IF s \in {"TC001", "TC005", "TC008"} THEN 1 ELSE 2

\* lastResp is the response to forward step k, the last step run so far
JustRan(k) == Len(passed) = k /\ probeResps = <<>>

\* x is a usable value and y is absent
OnlyUnder(x, y) == TruthyTok(x) /\ y = None

\* C8: every script that logs in accepts the access token under either key
\* `token` or `accessToken` and the refresh token under either `refreshToken`
\* or `refresh_token`: a 200 login response carrying the token under one of
\* the aliases passes the login step, and that value is the one sent in the
\* following requests.
C8_AcceptsEitherAlias ==
    /\ (scn \in LoginScripts \ {"TC004"} /\ JustRan(LoginIndex(scn))
        /\ lastResp.status = 200
        /\ \/ OnlyUnder(lastResp.token, lastResp.accessToken)
           \/ OnlyUnder(lastResp.accessToken, lastResp.token))
       => /\ passed[LoginIndex(scn)]
          /\ scn # "TC001" =>
                auth_token = PyOrTok(lastResp.token, lastResp.accessToken)
    /\ (scn = "TC004" /\ JustRan(LoginIndex(scn)) /\ lastResp.status = 200
        /\ \/ OnlyUnder(lastResp.refreshToken, lastResp.refresh_token)
           \/ OnlyUnder(lastResp.refresh_token, lastResp.refreshToken))
       => /\ passed[LoginIndex(scn)]
          /\ refresh_token =
                PyOrTok(lastResp.refreshToken, lastResp.refresh_token)
    /\ \A i \in DOMAIN sent :
          /\ (sent[i].kind # "probe" /\ Authed(sent[i].ep))
                => sent[i].tok = auth_token
          /\ sent[i].ep = "refresh" => sent[i].rt = refresh_token

\* C9: a registration step that tolerates an existing user passes exactly when
\* the response is 201 or a 400 saying the user already exists, and the script
\* then goes on to its next step; any other response, a 400 for another reason
\* included, fails the step.
C9_RegisterAcceptSet ==
    (scn \in {"TC002", "TC004"} /\ JustRan(1)) =>
        /\ passed[1] <=>
              \/ lastResp.status = 201
              \/ (lastResp.status = 400 /\ lastResp.already)
        /\ passed[1] => (state = "Running" /\ stepIndex = 2)
        /\ ~passed[1] => (state \in {"Failed", "Done"} /\ firstFailure = 1)

\* response r to step `name` of script s has none of the fields the step reads
\* its token or identifier from
Lacks(s, name, r) ==
    CASE name = "login" ->
            IF s = "TC004"
            THEN r.refreshToken = None /\ r.refresh_token = None
            ELSE IF s \in {"TC006", "TC007", "TC008"}
            THEN r.token = None
            ELSE r.token = None /\ r.accessToken = None
      [] name = "create_project" ->
            /\ r.id = NoneInt /\ r.projectId = NoneInt
            /\ s = "TC008" => r.project_id = NoneInt
      [] name = "create_site" -> r.id = NoneInt
      [] name = "add_link" -> r.id = NoneInt /\ r.linkId = NoneInt
      [] name = "refresh" -> r.accessToken = None /\ r.token = None
      [] name = "balance" -> r.balance = NoneInt
      [] name = "purchase" -> r.placementId = NoneInt /\ r.id = NoneInt
      [] OTHER -> FALSE

\* the last step run got a 2xx response without the field it extracts
MissingField ==
    /\ passed # <<>> /\ probeResps = <<>>
    /\ lastResp.status \in {200, 201}
    /\ Lacks(scn, StepName(scn, Len(passed)), lastResp)

\* the variable a step stores its extracted value in is still None
NothingRecorded(name) ==
    CASE name = "login" -> auth_token = None /\ refresh_token = None
      [] name = "create_project" -> project_id = NoneInt
      [] name = "create_site" -> site_id = NoneInt
      [] name = "add_link" -> link_id = NoneInt
      [] OTHER -> TRUE

\* the run fails at its last step run: nothing recorded, no later forward
\* step, and it ends failed
FailsAtLastStep ==
    /\ ~passed[Len(passed)]
    /\ firstFailure = Len(passed)
    /\ state \in {"Failed", "CleaningUp", "Done"}
    /\ NothingRecorded(StepName(scn, Len(passed)))
    /\ \A i \in DOMAIN Fwd : Fwd[i].step <= Len(passed)
    /\ state = "Done" => (failure.kind = "step" /\ failure.step = Len(passed))

\* C10 (as stated): a 2xx response that lacks the field the step extracts
\* (token, project id, site id, link id) fails the run at that step: no
\* identifier is recorded, no later forward step is issued, and the run ends
\* failed after the cleanup of a script that has one.
C10_MissingFieldFails ==
    MissingField =>
        /\ FailsAtLastStep
        /\ (HasCleanup(scn) /\ state = "Done") => cleanupRuns = 1

\* C10 (amended): a 2xx response that lacks the field the step extracts fails
\* the run at that step: no identifier is recorded, no later forward step is
\* issued, and the run ends failed after the cleanup of a script that has
\* one, unless the step is the login step of the project script TC008, which
\* lies before the try: that run ends failed without cleanup.
C10_MissingFieldFailsAmended ==
    MissingField =>
        /\ FailsAtLastStep
        /\ (HasCleanup(scn) /\ state = "Done"
            /\ ~(scn = "TC008" /\ Len(passed) = 1)) => cleanupRuns = 1

\* a purchase run whose site creation was answered 201 without an id: it
\* finished failed at that step after deleting the project it had created
C10_Witness ==
    /\ MissingField /\ scn = "TC010" /\ state = "Done"
    /\ StepName(scn, Len(passed)) = "create_site" /\ lastResp.status = 201
    /\ cleanupRuns = 1 /\ Len(Dels) = 1 /\ Dels[1].ep = "project"

\* the requests sent so far for forward step k that are not probe iterations
SentForStep(k) == {i \in DOMAIN sent : sent[i].kind = "forward" /\ sent[i].step = k}

\* the requests sent so far with a method other than GET
Writes == {i \in DOMAIN sent : sent[i].method # "GET"}

\* C11: within one run every POST, PATCH or DELETE step is sent at most once,
\* whatever its response or failure (no deposit or purchase is duplicated); the
\* only non-idempotent request sent more than once is the one of the probe
\* loop.
C11_WritesSentOnce ==
    /\ \A k \in 1 .. NumSteps(scn) : Cardinality(SentForStep(k)) <= 1
    /\ \A target \in {"link", "project", "site"} : DelCount(target) <= 1
    /\ \A i, j \in Writes :
          (i < j /\ sent[i].ep = sent[j].ep) =>
              (sent[i].kind = "probe" /\ sent[j].kind = "probe")

\* a purchase run whose purchase request timed out: it finished with one
\* deposit, one purchase and three DELETEs sent
C11_Witness ==
    /\ scn = "TC010" /\ state = "Done" /\ firstFailure = 8
    /\ lastResp.status = NetErr
    /\ Cardinality({i \in Writes : sent[i].ep = "deposit"}) = 1
    /\ Cardinality({i \in Writes : sent[i].ep = "purchase"}) = 1
    /\ Len(Dels) = 3

\* the purchase request, if this step sends it
PurchaseSent ==
    /\ Len(sent') = Len(sent) + 1
    /\ sent'[Len(sent')].ep = "purchase"

\* C13: in the purchase script the purchase request is sent only after
\* register, login, project creation, site creation, link creation and deposit
\* have each succeeded and the balance read back is greater than 0, and it
\* carries exactly the project, site and link ids recorded earlier in the run;
\* the run passes when the purchase returns 200 with placementId or id, and a
\* 400 is reported as a failure of the purchase step that carries the
\* server's message.
C13_PurchaseContract ==
    /\ [][PurchaseSent =>
            /\ scn = "TC010" /\ Len(passed) = 7
            /\ \A k \in 1 .. 7 : passed[k]
            /\ \A k \in 1 .. 7 :
                  \E i \in DOMAIN sent :
                      sent[i].step = k /\ sent[i].ep = StepName("TC010", k)
            /\ lastResp.status = 200 /\ lastResp.balance > 0
            /\ TruthyTok(auth_token) /\ project_id # NoneInt
            /\ site_id # NoneInt /\ link_id # NoneInt
            /\ sent'[Len(sent')].tok = auth_token
            /\ sent'[Len(sent')].pid = project_id
            /\ sent'[Len(sent')].sid = site_id
            /\ sent'[Len(sent')].lid = link_id
            /\ <<project_id', site_id', link_id'>> =
                  <<project_id, site_id, link_id>>]_vars
    /\ []((scn = "TC010" /\ Len(passed) = 8) =>
            /\ passed[8] <=>
                  /\ lastResp.status = 200
                  /\ lastResp.placementId # NoneInt \/ lastResp.id # NoneInt
            /\ passed[8] => (firstFailure = 0 /\ failure = NoFailure)
            /\ lastResp.status = 400 =>
                  /\ failure.kind = "step" /\ failure.step = 8
                  /\ failure.msg # None
                  /\ lastResp.message # None =>
                        failure.msg = lastResp.message)

\* a purchase run whose purchase was answered 400 "insufficient": it finished
\* failed at the purchase step with that message, after its cleanup
C13_Witness ==
    /\ scn = "TC010" /\ state = "Done" /\ Len(passed) = 8
    /\ lastResp.status = 400 /\ lastResp.message = "insufficient"
    /\ failure = [kind |-> "step", step |-> 8, msg |-> "insufficient"]
    /\ sent[8].pid = project_id /\ sent[8].sid = site_id
    /\ sent[8].lid = link_id /\ cleanupRuns = 1

\* the run holds an identifier for a resource of this kind
Recorded(target) ==
    CASE target = "link" -> link_id # NoneInt
      [] target = "project" -> project_id # NoneInt
      [] OTHER -> site_id # NoneInt

\* the last forward request (a probe request included) got no response
NoResponse == passed # <<>> /\ lastResp.status = NetErr

\* C14: a timeout or network error on an HTTP call is that step's failure: the
\* run is reported failed at that step, no later forward step is sent, and
\* the cleanup for the resources recorded before the error still runs.
C14_NetworkErrorFailsStep ==
    NoResponse =>
        /\ ~passed[Len(passed)]
        /\ firstFailure = Len(passed)
        /\ state \in {"Failed", "CleaningUp", "Done"}
        /\ \A i \in DOMAIN Fwd : Fwd[i].step <= firstFailure
        /\ state = "Done" =>
              /\ failure.kind = "step" /\ failure.step = firstFailure
              /\ \A target \in {"link", "project", "site"} :
                    Recorded(target) => DelCount(target) = 1

\* the forward step that creates a resource of this kind
CreateStep(target) ==
    CASE target = "link" -> "add_link"
      [] target = "project" -> "create_project"
      [] OTHER -> "create_site"

\* the server answered 201 to the creation of a resource of this kind: the
\* creation step passed, or it is the step that failed and its answer was 201
Created(target) ==
    \E k \in DOMAIN passed :
        /\ k <= NumSteps(scn)
        /\ StepName(scn, k) = CreateStep(target)
        /\ passed[k] \/ (k = Len(passed) /\ lastResp.status = 201)

\* C15: no resource leaks: when a run of the project script or the purchase
\* script finishes, every project, site and link for which the server
\* answered 201 during the run has had a DELETE sent for it, whatever step
\* failed and whatever id the server returned (none, or 0, included).
C15_NoLeaks ==
    (scn \in {"TC008", "TC010"} /\ state = "Done") =>
        \A target \in {"link", "project", "site"} :
            Created(target) => DelCount(target) = 1

\* every call blocks until its response arrives or its timeout of 30 s ends,
\* and the statement after it then runs: a run that can take a step takes it
SpecFair == Spec /\ WF_vars(Next)

\* the most requests a run of script s can send: one per forward step, the
\* probe step up to max_attempts, and one per cleanup DELETE
RequestBound(s) ==
    NumSteps(s) + Len(CleanupPlan(s))
    + IF s = "TC001" THEN max_attempts - 1 ELSE 0

\* C17: every run terminates: given that each HTTP call returns a response or
\* times out, the run reaches its final state Done, and stays there, after a
\* bounded number of requests, whatever the server answers; the probe loop
\* ends after at most max_attempts requests even if no answer is 429.
C17_Terminates ==
    /\ <>[](state = "Done")
    /\ [](Len(sent) <= RequestBound(scn))
    /\ [](Len(probeResps) <= max_attempts)
    /\ []((scn = "TC001" /\ Len(probeResps) = max_attempts
            /\ probeResps[max_attempts] # 429) => state \in {"Failed", "Done"})

\* a login run whose ten probe requests were all answered 500: it has finished
C17_Witness ==
    /\ scn = "TC001" /\ state = "Done" /\ ~rate_limited
    /\ Len(probeResps) = max_attempts
    /\ \A i \in DOMAIN probeResps : probeResps[i] = 500

-----------------------------------------------------------------------------
(* Two runs against one shared server *)

\* the two runs
Runs == {1, 2}

\* the scripts that register the user they run as
RegisteringScripts == {"TC006", "TC007", "TC010"}

\* the registration, login and password steps of a registering script
AuthSteps(s) ==
    IF s = "TC007"
    THEN <<"register", "login", "change_password", "login_new",
           "change_password_bad">>
    ELSE <<"register", "login">>

\* the username run r of script s registers and logs in with; TC006 draws a
\* uuid4 prefix per run (taken to differ between runs), the others are fixed
TEST_USERNAME(s, r) ==
    CASE s = "TC006" -> IF r = 1 THEN "testuser_uuid1" ELSE "testuser_uuid2"
      [] s = "TC007" -> "testuser_tc007"
      [] s \in {"TC001", "TC005", "TC008"} -> "testuser"
      [] OTHER -> "testuser_tc010"

\* mutant: the profile script logs in with the password of the login script
TEST_PASSWORD_Shared(s) ==
    CASE s = "TC006" -> "TestPass123!"
      [] s = "TC007" -> "InitialPass123!"
      [] s = "TC001" -> "testpassword123"
      [] s = "TC005" -> "testpassword123"
      [] s = "TC008" -> "testpassword"
      [] OTHER -> "TestPassword123!"

\* the password a script registers or logs in with
TEST_PASSWORD(s) ==
    CASE s = "TC006" -> "TestPass123!"
      [] s = "TC007" -> "InitialPass123!"
      [] s = "TC001" -> "testpassword123"
      [] s = "TC005" -> "TestPassword123!"
      [] s = "TC008" -> "testpassword"
      [] OTHER -> "TestPassword123!"

Usernames == {TEST_USERNAME(s, r) : s \in RegisteringScripts, r \in Runs}

\* the request of an auth step of run r, which holds token tok
AuthRequest(s, r, name, tok) ==
    [ep |-> name,
     username |-> TEST_USERNAME(s, r),
     password |-> CASE name = "login_new" -> "NewPass123!"
                    [] name = "change_password" -> TEST_PASSWORD(s)
                    [] name = "change_password_bad" -> "WrongPass123!"
                    [] name \in {"bad_login", "probe"} -> "wrongpassword"
                    [] OTHER -> TEST_PASSWORD(s),
     newPassword |-> CASE name = "change_password" -> "NewPass123!"
                       [] name = "change_password_bad" -> "DoesNotMatter123!"
                       [] OTHER -> None,
     tok |-> IF Authed(name) THEN tok ELSE None]

\* the server's answer to an auth request, users being its user store: register
\* is 201 for a new username and 400 for a duplicate, login is 200 with a token
\* for the right password and 401 otherwise, change-password is 200 for the
\* right current password and 400 otherwise
ServerAnswer(users, req) ==
    CASE req.ep = "register" ->
            IF users[req.username] = None
            THEN [Blank EXCEPT !.status = 201]
            ELSE [Blank EXCEPT !.status = 400, !.already = TRUE,
                               !.message = "already"]
      [] req.ep \in {"login", "login_new", "bad_login", "probe"} ->
            IF users[req.username] # None /\ users[req.username] = req.password
            THEN [Blank EXCEPT !.status = 200, !.token = req.username]
            ELSE [Blank EXCEPT !.status = 401]
      [] req.ep \in {"change_password", "change_password_bad"} ->
            IF req.tok \notin Usernames
            THEN [Blank EXCEPT !.status = 401]
            ELSE IF users[req.tok] = req.password
            THEN [Blank EXCEPT !.status = 200]
            ELSE [Blank EXCEPT !.status = 400]
      [] OTHER -> [Blank EXCEPT !.status = 400]

\* the server's user store after an auth request
ServerAfter(users, req) ==
    CASE req.ep = "register" /\ users[req.username] = None ->
            [users EXCEPT ![req.username] = req.password]
      [] req.ep \in {"change_password", "change_password_bad"}
         /\ req.tok \in Usernames /\ users[req.tok] = req.password ->
            [users EXCEPT ![req.tok] = req.newPassword]
      [] OTHER -> users

\* a server on which nobody is registered
FreshServer == [u \in Usernames |-> None]

\* the first failing auth step (0 if none) of script s run alone as run r from
\* step k on, on a server with user store users
RECURSIVE AloneFrom(_, _, _, _, _)
AloneFrom(s, r, k, users, tok) ==
    IF k > Len(AuthSteps(s)) THEN 0
    ELSE LET name == AuthSteps(s)[k]
             req == AuthRequest(s, r, name, tok)
             resp == ServerAnswer(users, req)
         IN IF ~Passes(s, name, resp) THEN k
            ELSE AloneFrom(s, r, k + 1, ServerAfter(users, req),
                           IF name = "login" THEN LoginToken(s, resp) ELSE tok)

\* the result of script s run alone on a fresh server
AloneOutcome(s, r) == AloneFrom(s, r, 1, FreshServer, None)

InitConc ==
    /\ scn = "TC010"
    /\ state = "Pending"
    /\ stepIndex = 0
    /\ auth_token = None
    /\ refresh_token = None
    /\ project_id = NoneInt
    /\ site_id = NoneInt
    /\ link_id = NoneInt
    /\ rate_limited = FALSE
    /\ attempts = 0
    /\ probeResps = <<>>
    /\ todo = <<>>
    /\ cleanupRuns = 0
    /\ cleanupResps = <<>>
    /\ sent = <<>>
    /\ passed = <<>>
    /\ lastResp = Blank
    /\ failure = NoFailure
    /\ firstFailure = 0
    /\ srvUsers = FreshServer
    /\ limiter = NoLimiter
    /\ conc \in [Runs -> {[script |-> s, pc |-> 1, failed |-> 0, token |-> None,
                           done |-> FALSE] : s \in RegisteringScripts}]

\* run r performs its next auth step against the shared server
ConcStep(r) ==
    /\ ~conc[r].done
    /\ LET s == conc[r].script
           name == AuthSteps(s)[conc[r].pc]
           req == AuthRequest(s, r, name, conc[r].token)
           resp == ServerAnswer(srvUsers, req)
           ok == Passes(s, name, resp)
       IN
       /\ srvUsers' = ServerAfter(srvUsers, req)
       /\ conc' = [conc EXCEPT
                     ![r].pc = IF ok THEN @ + 1 ELSE @,
                     ![r].failed = IF ok THEN 0 ELSE conc[r].pc,
                     ![r].token = IF ok /\ name = "login"
                                  THEN LoginToken(s, resp) ELSE @,
                     ![r].done = ~ok \/ conc[r].pc = Len(AuthSteps(s))]
    /\ UNCHANGED limiter
    /\ UNCHANGED runVars

NextConc == \E r \in Runs : ConcStep(r)

SpecConc == InitConc /\ [][NextConc]_vars

\* C7: runs executed concurrently against the same server do not interfere:
\* under every interleaving of two runs each run ends with the result it has
\* when it runs alone.
C7_NoInterference ==
    \A r \in Runs :
        conc[r].done => conc[r].failed = AloneOutcome(conc[r].script, r)

-----------------------------------------------------------------------------
(* Successive runs against one shared server *)

\* the scripts that log in as the user testuser, which they do not register
TestuserScripts == {"TC001", "TC005", "TC008"}

\* the most runs of the login script made one after another
MaxRuns == 2

\* the number N of failing logins after which the server throttles
Thresholds == 1 .. max_attempts

\* the forward steps that post to /api/auth/login
LoginEndpoint(name) == name \in {"login", "bad_login", "probe"}

\* a server on which testuser has the one password pw
SeededServer(pw) == [u \in {"testuser"} |-> pw]

\* the throttle is answering 429
Throttling(lim) == lim.N > 0 /\ lim.fails >= lim.N

\* the server's answer to a login request behind its throttle: 429 while the
\* throttle is on (to every login if it is strict, to failing logins if not),
\* and the answer of the user store otherwise
LimitedAnswer(users, lim, req) ==
    LET plain == ServerAnswer(users, req) IN
    IF Throttling(lim) /\ (lim.strict \/ plain.status # 200)
    THEN [Blank EXCEPT !.status = 429]
    ELSE plain

\* the throttle after a login request: a login answered 401 is counted
LimiterAfter(users, lim, req) ==
    IF lim.N > 0 /\ ~Throttling(lim) /\ ServerAnswer(users, req).status = 401
    THEN [lim EXCEPT !.fails = @ + 1]
    ELSE lim

\* one forward step on the shared server: a login is answered by the user
\* store and the throttle, any other request by whatever the server answers
SrvStep ==
    /\ state = "Running"
    /\ StepName(scn, stepIndex) # "probe"
    /\ LET name == StepName(scn, stepIndex)
           req == AuthRequest(scn, 1, name, auth_token)
       IN IF LoginEndpoint(name)
          THEN /\ RunStep(LimitedAnswer(srvUsers, limiter, req))
               /\ limiter' = LimiterAfter(srvUsers, limiter, req)
          ELSE /\ \E r \in Responses(scn, name) : RunStep(r)
               /\ UNCHANGED limiter
    /\ UNCHANGED <<srvUsers, conc>>

\* one iteration of the probe loop on the shared server
SrvProbe ==
    /\ state = "Running"
    /\ StepName(scn, stepIndex) = "probe"
    /\ LET req == AuthRequest(scn, 1, "probe", auth_token) IN
          /\ RunProbe(LimitedAnswer(srvUsers, limiter, req).status)
          /\ limiter' = LimiterAfter(srvUsers, limiter, req)
    /\ UNCHANGED <<srvUsers, conc>>

\* the record of the run that has just finished
RunRecord ==
    [script |-> scn, pc |-> stepIndex, failed |-> firstFailure,
     token |-> auth_token, done |-> TRUE]

\* script s is invoked: its local variables are those of a new call
Invoke(s) ==
    /\ scn' = s
    /\ state' = "Pending"
    /\ stepIndex' = 0
    /\ auth_token' = None
    /\ refresh_token' = None
    /\ project_id' = NoneInt
    /\ site_id' = NoneInt
    /\ link_id' = NoneInt
    /\ rate_limited' = FALSE
    /\ attempts' = 0
    /\ probeResps' = <<>>
    /\ todo' = <<>>
    /\ cleanupRuns' = 0
    /\ cleanupResps' = <<>>
    /\ sent' = <<>>
    /\ passed' = <<>>
    /\ lastResp' = Blank
    /\ failure' = NoFailure
    /\ firstFailure' = 0

\* the script that has finished is run again on the same server
Rerun ==
    /\ state = "Done"
    /\ Len(conc) + 1 < MaxRuns
    /\ conc' = Append(conc, RunRecord)
    /\ Invoke(scn)
    /\ UNCHANGED <<srvUsers, limiter>>

\* time passes before a run starts: the window of the throttle ends
WindowExpires ==
    /\ state = "Pending"
    /\ limiter.fails > 0
    /\ limiter' = [limiter EXCEPT !.fails = 0]
    /\ UNCHANGED <<srvUsers, conc>>
    /\ UNCHANGED runVars

InitThrottle ==
    /\ scn = "TC001"
    /\ state = "Pending"
    /\ stepIndex = 0
    /\ auth_token = None
    /\ refresh_token = None
    /\ project_id = NoneInt
    /\ site_id = NoneInt
    /\ link_id = NoneInt
    /\ rate_limited = FALSE
    /\ attempts = 0
    /\ probeResps = <<>>
    /\ todo = <<>>
    /\ cleanupRuns = 0
    /\ cleanupResps = <<>>
    /\ sent = <<>>
    /\ passed = <<>>
    /\ lastResp = Blank
    /\ failure = NoFailure
    /\ firstFailure = 0
    /\ srvUsers = SeededServer(TEST_PASSWORD("TC001"))
    /\ limiter \in [N : Thresholds, fails : {0}, strict : BOOLEAN]
    /\ conc = <<>>

NextThrottle ==
    \/ Start
    \/ SrvStep
    \/ SrvProbe
    \/ Exit
    \/ Rerun
    \/ WindowExpires

\* runs of the login script, one after another, on a server that throttles
SpecThrottle == InitThrottle /\ [][NextThrottle]_vars

\* C12: repeating the failing login up to max_attempts times yields a 429 in
\* every run of the login script, a run started right after an earlier run
\* that triggered the throttle included: the valid login (200), the wrong
\* password (401) and the probe all pass on every rerun, whatever throttle
\* state earlier runs left on the server.
C12_PassesEveryRun ==
    /\ \A i \in DOMAIN conc : conc[i].failed = 0
    /\ state = "Done" => (~RunFailed /\ rate_limited)

\* the passwords testuser may have on the server: those the scripts use, and
\* one that no script uses
ServerPasswords ==
    {TEST_PASSWORD(s) : s \in TestuserScripts} \cup {"otherpassword"}

\* the scripts run so far on the shared server, the current one included
ScriptsRun == {scn} \cup {conc[i].script : i \in DOMAIN conc}

\* another of the testuser scripts is run on the same server
RunNext ==
    /\ state = "Done"
    /\ \E s \in TestuserScripts \ ScriptsRun : Invoke(s)
    /\ conc' = Append(conc, RunRecord)
    /\ UNCHANGED <<srvUsers, limiter>>

InitLogins ==
    /\ scn \in TestuserScripts
    /\ state = "Pending"
    /\ stepIndex = 0
    /\ auth_token = None
    /\ refresh_token = None
    /\ project_id = NoneInt
    /\ site_id = NoneInt
    /\ link_id = NoneInt
    /\ rate_limited = FALSE
    /\ attempts = 0
    /\ probeResps = <<>>
    /\ todo = <<>>
    /\ cleanupRuns = 0
    /\ cleanupResps = <<>>
    /\ sent = <<>>
    /\ passed = <<>>
    /\ lastResp = Blank
    /\ failure = NoFailure
    /\ firstFailure = 0
    /\ srvUsers \in {SeededServer(pw) : pw \in ServerPasswords}
    /\ limiter = NoLimiter
    /\ conc = <<>>

NextLogins ==
    \/ Start
    \/ SrvStep
    \/ SrvProbe
    \/ EnterCleanup
    \/ CleanupStep
    \/ Finish
    \/ Exit
    \/ RunNext

\* the three testuser scripts, one after another in any order, on a server
\* where testuser has one password
SpecLogins == InitLogins /\ [][NextLogins]_vars

\* script s has been run and its login step passed
PastLogin(s) ==
    \/ scn = s /\ Len(passed) >= LoginIndex(s) /\ passed[LoginIndex(s)]
    \/ \E i \in DOMAIN conc :
          /\ conc[i].script = s
          /\ conc[i].pc > LoginIndex(s) \/ conc[i].failed # LoginIndex(s)

\* C16: the login, profile and project scripts log in as the same user
\* testuser with three different passwords, so on a server where a username
\* has exactly one valid password and login answers 200 only for it, at most
\* one of the three gets past its login step; no server state lets all three
\* pass.
C16_AtMostOnePastLogin ==
    /\ \A s \in TestuserScripts : TEST_USERNAME(s, 1) = "testuser"
    /\ \A s \in TestuserScripts :
          PastLogin(s) => srvUsers["testuser"] = TEST_PASSWORD(s)
    /\ Cardinality({s \in TestuserScripts : PastLogin(s)}) <= 1
    /\ (state = "Done" /\ ~RunFailed /\ failure = NoFailure) =>
          \A i \in DOMAIN conc : conc[i].failed = LoginIndex(conc[i].script)

\* all three scripts have been run on a server where testuser has the
\* password of the project script: that script got past its login, the login
\* script and the profile script failed at theirs
C16_Witness ==
    /\ ScriptsRun = TestuserScripts /\ state = "Done"
    /\ srvUsers["testuser"] = "testpassword"
    /\ PastLogin("TC008") /\ ~PastLogin("TC001") /\ ~PastLogin("TC005")

====
